---- MODULE Spec2Model ----
(***************************************************************************)
(* A model of the EPUB downloader: the range selection of                  *)
(* utils/helpers.py (parse_range_selection), the retrying fetch of         *)
(* utils/helpers.py (fetch_soup), the package builder of                   *)
(* utils/epub_builder.py (EpubBuilder) and run() of the site modules.      *)
(*                                                                         *)
(* Strings the code inspects character by character (the selection         *)
(* expression) are sequences of one-character strings.                     *)
(***************************************************************************)
EXTENDS Integers, Sequences, FiniteSets, TLC

(***************************************************************************)
(* Bounds of the model.                                                    *)
(***************************************************************************)
MaxLen == 4
MaxItems == 3
MaxRetries == 3
MaxBackoff == 2
MaxChapters == 2
MaxImages == 2
MaxFeed == 2

(***************************************************************************)
(* Characters of selection expressions: letters of "all" in both cases,    *)
(* a letter outside the grammar, blank, hyphen and digits.                 *)
(***************************************************************************)
Digits == {"0", "1", "2", "3"}
Alphabet == {"a", "l", "A", "x", " ", "-"} \cup Digits

Expressions == UNION {[1..n -> Alphabet] : n \in 0..MaxLen}

\* The value Python's None has as a selection (helpers.py:39).
NoneSel == <<"None">>

\* The (title, link) pairs of the chapter index, in index order.
AllItems == [i \in 1..MaxItems |-> <<"title", i>>]
ItemLists == {SubSeq(AllItems, 1, n) : n \in 0..MaxItems}

\* parse_range_selection: its two arguments and its outcome.
VARIABLES items, selection, selected

\* fetch_soup: its arguments (retries, backoff0), its locals (attempt, backoff,
\* last_exc), its position and outcome, and the requests and sleeps it has made.
VARIABLES retries, backoff0, attempt, backoff, last_exc, fetch_pc, fetched, net_log

selVars == <<items, selection, selected>>

\* EpubBuilder: the fields of the instance that build() reads or writes, and
\* book, the package the last build() wrote.
VARIABLES include_cover_page, cover_first_in_spine, chapters, cover_url,
          images, image_counter, book

fetchVars == <<retries, backoff0, attempt, backoff, last_exc, fetch_pc, fetched, net_log>>

builderVars == <<include_cover_page, cover_first_in_spine, chapters, cover_url,
                 images, image_counter, book>>

\* run(url, range_, save_as) of a site module: the module, the position in run,
\* the HTTP requests issued so far, the exception that left run, the chapters
\* downloaded so far, the position in the selected list, and the files written.
VARIABLES site, run_pc, run_log, run_exc, all_chapters, chapter_idx, files

runVars == <<site, run_pc, run_log, run_exc, all_chapters, chapter_idx, files>>

vars == <<selVars, fetchVars, builderVars, runVars>>

(***************************************************************************)
(* String primitives of Python used by parse_range_selection.              *)
(***************************************************************************)
LowerChar(c) == IF c = "A" THEN "a" ELSE c

Lower(s) == [i \in 1..Len(s) |-> LowerChar(s[i])]

IsSpace(c) == c = " "

RECURSIVE LStrip(_)
LStrip(s) == IF s # <<>> /\ IsSpace(Head(s)) THEN LStrip(Tail(s)) ELSE s

RECURSIVE RStrip(_)
RStrip(s) == IF s # <<>> /\ IsSpace(s[Len(s)])
               THEN RStrip(SubSeq(s, 1, Len(s) - 1))
               ELSE s

Strip(s) == RStrip(LStrip(s))

DigitValue(c) == CASE c = "0" -> 0 [] c = "1" -> 1 [] c = "2" -> 2 [] c = "3" -> 3

RECURSIVE ToInt(_)
ToInt(s) == IF s = <<>> THEN 0
            ELSE 10 * ToInt(SubSeq(s, 1, Len(s) - 1)) + DigitValue(s[Len(s)])

\* re.match(r'^\d+$', s)
MatchDigits(s) == Len(s) >= 1 /\ \A i \in 1..Len(s) : s[i] \in Digits

\* The position of the hyphen when re.match(r'^(\d+)-(\d+)$', s) matches, else 0.
HyphenPos(s) ==
    IF \E i \in 1..Len(s) : /\ s[i] = "-"
                            /\ MatchDigits(SubSeq(s, 1, i - 1))
                            /\ MatchDigits(SubSeq(s, i + 1, Len(s)))
      THEN CHOOSE i \in 1..Len(s) : /\ s[i] = "-"
                                    /\ MatchDigits(SubSeq(s, 1, i - 1))
                                    /\ MatchDigits(SubSeq(s, i + 1, Len(s)))
      ELSE 0

MatchRange(s) == HyphenPos(s) # 0

Group1(s) == SubSeq(s, 1, HyphenPos(s) - 1)

Group2(s) == SubSeq(s, HyphenPos(s) + 1, Len(s))

(***************************************************************************)
(* Outcomes of a call: a returned list or a raised exception.              *)
(***************************************************************************)
Return(v) == [kind |-> "return", msg |-> "", value |-> v]

Raise(k, m) == [kind |-> k, msg |-> m, value |-> <<>>]

OutOfRange == Raise("IndexError", "Chapter index out of range")

InvalidRange == Raise("IndexError", "Invalid chapter range")

\* Variant of InvalidSyntax that returns an empty selection.
InvalidSyntax_ReturnsEmpty == Return(<<>>)

\* helpers.py:58
InvalidSyntax == Raise("ValueError", "Invalid range syntax. Use 'all', 'N', or 'N-M'.")

\* items[idx] of Python for idx < len(items): a negative idx counts from the end.
PyIndex(list, idx) == IF idx >= 0 THEN list[idx + 1] ELSE list[Len(list) + idx + 1]

\* items[start:end] of Python for 0 <= start, end <= len(items).
PySlice(list, start, end) == IF start >= end THEN <<>> ELSE SubSeq(list, start + 1, end)

\* Variant of SelectSingle without the idx < 0 test.
SelectSingle_NoLowerCheck(list, n) ==
    LET total == Len(list)
        idx == n - 1
    IN  IF idx >= total THEN OutOfRange
        ELSE IF idx < 0 /\ total = 0 THEN Raise("IndexError", "list index out of range")
        ELSE Return(<<PyIndex(list, idx)>>)

\* helpers.py:43-46, n = int(selection)
SelectSingle(list, n) ==
    LET total == Len(list)
        idx == n - 1
    IN  IF idx < 0 \/ idx >= total THEN OutOfRange
        ELSE Return(<<PyIndex(list, idx)>>)

\* Variant of SelectInterval that rejects only start > end.
SelectInterval_EmptyAccepted(list, a, b) ==
    LET total == Len(list)
        start == IF a - 1 < 0 THEN 0 ELSE a - 1
        end == IF b > total THEN total ELSE b
    IN  IF start > end THEN InvalidRange
        ELSE Return(PySlice(list, start, end))

\* Variant of SelectInterval that takes a as the 0-based start.
SelectInterval_StartOffByOne(list, a, b) ==
    LET total == Len(list)
        start == IF a < 0 THEN 0 ELSE a
        end == IF b > total THEN total ELSE b
    IN  IF start >= end THEN InvalidRange
        ELSE Return(PySlice(list, start, end))

\* helpers.py:49-57, a = int(m.group(1)), b = int(m.group(2))
SelectInterval(list, a, b) ==
    LET total == Len(list)
        start == IF a - 1 < 0 THEN 0 ELSE a - 1
        end == IF b > total THEN total ELSE b
    IN  IF start >= end THEN InvalidRange
        ELSE Return(PySlice(list, start, end))

\* helpers.py:32-58
parse_range_selection(list, sel) ==
    IF sel = NoneSel \/ Lower(sel) = <<"a", "l", "l">> THEN Return(list)
    ELSE LET s == Strip(sel)
         IN  IF MatchDigits(s) THEN SelectSingle(list, ToInt(s))
             ELSE IF MatchRange(s)
                    THEN SelectInterval(list, ToInt(Group1(s)), ToInt(Group2(s)))
                    ELSE InvalidSyntax

(***************************************************************************)
(* The selection as a state machine: the inputs are drawn in InitSelect,   *)
(* Select applies the function.                                            *)
(***************************************************************************)
Pending == [kind |-> "pending", msg |-> "", value |-> <<>>]

SelectIdle ==
    /\ items = <<>>
    /\ selection = NoneSel
    /\ selected = Pending

FetchIdle ==
    /\ retries = 0
    /\ backoff0 = 0
    /\ attempt = 0
    /\ backoff = 0
    /\ last_exc = "None"
    /\ fetch_pc = "idle"
    /\ fetched = "None"
    /\ net_log = <<>>

\* None, for a URL or for image bytes: false in a condition, like b"" and "".
None == ""

NoBook == [identifier |-> 0]

BuilderIdle ==
    /\ include_cover_page = FALSE
    /\ cover_first_in_spine = FALSE
    /\ chapters = <<>>
    /\ cover_url = None
    /\ images = <<>>
    /\ image_counter = 0
    /\ book = NoBook

RunIdle ==
    /\ site = "none"
    /\ run_pc = "idle"
    /\ run_log = <<>>
    /\ run_exc = "None"
    /\ all_chapters = <<>>
    /\ chapter_idx = 0
    /\ files = {}

InitSelect ==
    /\ items \in ItemLists
    /\ selection \in Expressions \cup {NoneSel}
    /\ selected = Pending
    /\ FetchIdle
    /\ BuilderIdle
    /\ RunIdle

Select ==
    /\ selected = Pending
    /\ selected' = parse_range_selection(items, selection)
    /\ UNCHANGED <<items, selection, fetchVars, builderVars, runVars>>

NextSelect == Select

SpecSelect == InitSelect /\ [][NextSelect]_vars

(***************************************************************************)
(* fetch_soup (helpers.py:15-29), one action per pass of its loop.         *)
(* net_log records, in order, every request with its outcome and every     *)
(* sleep with its duration.                                                *)
(***************************************************************************)
\* What makes requests.get / raise_for_status / the parse raise (helpers.py:20-23).
Failures == {"ConnectionError", "Timeout", "HTTPError"}

Request(outcome) == [ev |-> "request", outcome |-> outcome, dur |-> 0]

Sleep(d) == [ev |-> "sleep", outcome |-> "", dur |-> d]

\* Variant of InLoop with one pass more than retries.
InLoop_OnePassMore(a, n) == a <= n + 1

\* for attempt in range(1, retries + 1) (helpers.py:17)
InLoop(a, n) == a <= n

\* Variant of NextBackoff that keeps the delay constant.
NextBackoff_Constant(b) == b

\* backoff *= 2 (helpers.py:27)
NextBackoff(b) == b * 2

\* The call fetch_soup(url, retries, backoff): every caller passes the
\* defaults, the model draws retries >= 1 and the initial backoff.
InitFetch ==
    /\ retries \in 1..MaxRetries
    /\ backoff0 \in 1..MaxBackoff
    /\ backoff = backoff0
    /\ attempt = 1
    /\ last_exc = "None"
    /\ fetch_pc = "loop"
    /\ fetched = "None"
    /\ net_log = <<>>
    /\ SelectIdle
    /\ BuilderIdle
    /\ RunIdle

\* helpers.py:18-22: the request succeeds and the soup is returned.
AttemptSucceeds ==
    /\ fetch_pc = "loop"
    /\ InLoop(attempt, retries)
    /\ net_log' = Append(net_log, Request("ok"))
    /\ fetched' = "soup"
    /\ fetch_pc' = "returned"
    /\ UNCHANGED <<retries, backoff0, attempt, backoff, last_exc, selVars, builderVars, runVars>>

\* helpers.py:18-27: the request raises e; the handler records it, sleeps and
\* doubles the backoff, and the loop advances.
AttemptFails ==
    /\ fetch_pc = "loop"
    /\ InLoop(attempt, retries)
    /\ \E e \in Failures :
         /\ net_log' = net_log \o <<Request(e), Sleep(backoff)>>
         /\ last_exc' = e
    /\ backoff' = NextBackoff(backoff)
    /\ attempt' = attempt + 1
    /\ UNCHANGED <<retries, backoff0, fetch_pc, fetched, selVars, builderVars, runVars>>

\* helpers.py:28-29: the loop is exhausted, the last exception is raised.
RaiseLast ==
    /\ fetch_pc = "loop"
    /\ ~InLoop(attempt, retries)
    /\ fetch_pc' = "raised"
    /\ fetched' = last_exc
    /\ UNCHANGED <<retries, backoff0, attempt, backoff, last_exc, net_log, selVars, builderVars, runVars>>

NextFetch == AttemptSucceeds \/ AttemptFails \/ RaiseLast

SpecFetch == InitFetch /\ [][NextFetch]_vars

(***************************************************************************)
(* EpubBuilder (epub_builder.py).  A chapter is a title and the list of    *)
(* its paragraphs; the markup of a chapter body is the sequence of its     *)
(* text runs and <img> tags, which is what _process_chapter_images reads   *)
(* and rewrites.                                                           *)
(***************************************************************************)
Text(t) == [type |-> "text", text |-> t, src |-> ""]

Img(src) == [type |-> "img", text |-> "", src |-> src]

\* The chapters the scraper hands over: text only; an image between two text
\* runs; an image whose src carries a query string and an <img> without src.
ChapterPool ==
    { [title |-> "One", paras |-> <<Text("t1")>>],
      [title |-> "Two", paras |-> <<Text("t2"), Img("u1.png"), Text("t3")>>],
      [title |-> "Three", paras |-> <<Img("u2.png?w=9"), Img("")>>] }

ChapterLists == UNION {[1..n -> ChapterPool] : n \in 1..MaxChapters}

CoverUrls == {"cover.png"}

\* How a download ends: "ok" when the request, the decoding and the re-encoding
\* all succeed, "failed" when any of them raises (a network error, an error
\* status, bytes that are no image), which the one except clause catches.
DownloadOutcomes == {"ok", "failed"}

\* The JPEG bytes img.save produces for the image behind url.
Jpeg(url) == "jpeg:" \o url

\* (src or '').split('?')[0]  (epub_builder.py:110)
StripQuery(src) == IF src = "u2.png?w=9" THEN "u2.png" ELSE src

\* epub_builder.py:89-103
DownloadImage(url, outcome) == IF outcome = "ok" THEN Jpeg(url) ELSE None

\* epub_builder.py:71-87, outcome being that of the request and the decoding
DownloadAndPrepareCover(url, outcome) ==
    IF url = None THEN None
    ELSE IF outcome = "ok" THEN Jpeg(url) ELSE None

\* self._images[filename] = img_bytes: a dict keeps the position of a key it has.
DictSet(dict, key, val) ==
    IF \E i \in 1..Len(dict) : dict[i].key = key
      THEN [i \in 1..Len(dict) |-> IF dict[i].key = key THEN [key |-> key, val |-> val]
                                                       ELSE dict[i]]
      ELSE Append(dict, [key |-> key, val |-> val])

\* Variant of NextImageCounter that does not advance.
NextImageCounter_Stuck(counter) == counter

\* self._image_counter += 1  (epub_builder.py:119)
NextImageCounter(counter) == counter + 1

ImgId(counter) == "img_" \o ToString(counter)

ImgFilename(counter) == "images/" \o ImgId(counter) \o ".jpg"

\* The <img> tags of a body that _process_chapter_images downloads.
IsFetched(b) == b.type = "img" /\ StripQuery(b.src) # ""

RECURSIVE NumFetches(_)
NumFetches(blocks) ==
    IF blocks = <<>> THEN 0
    ELSE (IF IsFetched(Head(blocks)) THEN 1 ELSE 0) + NumFetches(Tail(blocks))

RECURSIVE NumFetchesAll(_)
NumFetchesAll(chs) ==
    IF chs = <<>> THEN 0 ELSE NumFetches(Head(chs).paras) + NumFetchesAll(Tail(chs))

\* epub_builder.py:108-124, from the i-th node of the body on.  st carries
\* self._image_counter, self._images, the rewritten body, the outcome of each
\* <img> tag so far and the number k of downloads made in this build; outs[k]
\* is the outcome of the k-th download.
RECURSIVE ProcessFrom(_, _, _, _)
ProcessFrom(blocks, i, outs, st) ==
    IF i > Len(blocks) THEN st
    ELSE LET b == blocks[i]
             src == StripQuery(b.src)
             img_bytes == DownloadImage(src, outs[st.k + 1])
             filename == ImgFilename(st.counter)
         IN  IF b.type # "img"
               THEN ProcessFrom(blocks, i + 1, outs, [st EXCEPT !.html = Append(@, b)])
             ELSE IF src = ""
               THEN ProcessFrom(blocks, i + 1, outs,
                        [st EXCEPT !.html = Append(@, b),
                                   !.results = Append(@, "no_src")])
             ELSE IF img_bytes = None
               THEN ProcessFrom(blocks, i + 1, outs,
                        [st EXCEPT !.html = Append(@, b),
                                   !.results = Append(@, "failed"),
                                   !.k = @ + 1])
             ELSE ProcessFrom(blocks, i + 1, outs,
                        [st EXCEPT !.html = Append(@, [b EXCEPT !.src = "../" \o filename]),
                                   !.results = Append(@, "stored"),
                                   !.k = @ + 1,
                                   !.counter = NextImageCounter(@),
                                   !.images = DictSet(@, filename, img_bytes)])

\* epub_builder.py:105-125
ProcessChapterImages(blocks, outs, counter, imgs, k) ==
    ProcessFrom(blocks, 1, outs,
                [counter |-> counter, images |-> imgs, html |-> <<>>,
                 results |-> <<>>, k |-> k])

ChapFile(idx) == "xhtml/chap_" \o ToString(idx) \o ".xhtml"

\* epub_builder.py:188-196, from the idx-th chapter on.  acc carries the chapter
\* documents made so far with the builder's counter and image table.
RECURSIVE ChaptersFrom(_, _, _, _)
ChaptersFrom(chs, idx, outs, acc) ==
    IF idx > Len(chs) THEN acc
    ELSE LET done == ProcessChapterImages(chs[idx].paras, outs, acc.counter, acc.images, acc.k)
             chap == [file |-> ChapFile(idx), title |-> chs[idx].title,
                      content |-> done.html, results |-> done.results]
         IN  ChaptersFrom(chs, idx + 1, outs,
                          [docs |-> Append(acc.docs, chap), counter |-> done.counter,
                           images |-> done.images, k |-> done.k])

\* str(uuid.uuid4()) (epub_builder.py:129): an identifier the previous package
\* does not carry.
FreshIdentifier(prev) == IF prev = 1 THEN 2 ELSE 1

\* epub_builder.py:228
OutputFile(output_basename) ==
    IF output_basename = "out.epub" THEN output_basename ELSE output_basename \o ".epub"

Basenames == {"out"}

\* if self._cover_url and self.include_cover_page  (epub_builder.py:156)
CoverFetched == cover_url # None /\ include_cover_page

\* Variant of TocList that links the cover page whether or not it was made.
TocList_AlwaysCover(coverpage, chapter_items) ==
    <<"xhtml/cover.xhtml", "xhtml/intro.xhtml">> \o chapter_items

\* epub_builder.py:203-209
TocList(coverpage, chapter_items) ==
    (IF coverpage THEN <<"xhtml/cover.xhtml">> ELSE <<>>)
        \o <<"xhtml/intro.xhtml">> \o chapter_items

\* Variant of SpineOrder that puts the cover page after the navigation document.
SpineOrder_CoverAfterNav(coverpage, chapter_items) ==
    <<"xhtml/nav.xhtml">>
        \o (IF cover_first_in_spine /\ coverpage THEN <<"xhtml/cover.xhtml">> ELSE <<>>)
        \o <<"xhtml/intro.xhtml">> \o chapter_items

\* epub_builder.py:216-223
SpineOrder(coverpage, chapter_items) ==
    (IF cover_first_in_spine /\ coverpage THEN <<"xhtml/cover.xhtml">> ELSE <<>>)
        \o <<"xhtml/nav.xhtml", "xhtml/intro.xhtml">> \o chapter_items

\* epub_builder.py:127-231: the package build() writes and the builder's counter
\* and image table after it.  cov is the outcome of the cover download when it is made, outs
\* those of the image downloads in the order they are made.
BuildResult(output_basename, cov, outs) ==
    LET cover_content == IF CoverFetched THEN DownloadAndPrepareCover(cover_url, cov)
                                          ELSE None
        coverpage == cover_content # None
        chs == ChaptersFrom(chapters, 1, outs,
                            [docs |-> <<>>, counter |-> image_counter,
                             images |-> images, k |-> 0])
        chapter_items == [i \in 1..Len(chs.docs) |-> chs.docs[i].file]
        image_items == [i \in 1..Len(chs.images) |-> chs.images[i].key]
        toc_list == TocList(coverpage, chapter_items)
        spine == SpineOrder(coverpage, chapter_items)
    IN  [counter |-> chs.counter,
         images |-> chs.images,
         book |->
           [identifier |-> FreshIdentifier(book.identifier),
            file |-> OutputFile(output_basename),
            items |-> <<"styles/style.css">>
                        \o (IF coverpage THEN <<"images/cover.jpg", "xhtml/cover.xhtml">>
                                          ELSE <<>>)
                        \o <<"xhtml/intro.xhtml">> \o chapter_items \o image_items
                        \o <<"xhtml/nav.xhtml", "toc.ncx">>,
            cover |-> IF ~CoverFetched THEN "not_fetched"
                      ELSE IF coverpage THEN "stored" ELSE "failed",
            assets |-> (IF coverpage
                          THEN <<[key |-> "images/cover.jpg", val |-> cover_content]>>
                          ELSE <<>>) \o chs.images,
            docs |-> chs.docs,
            toc |-> toc_list,
            spine |-> spine,
            include_cover_page |-> include_cover_page,
            cover_first_in_spine |-> cover_first_in_spine,
            cover_url |-> cover_url,
            chapters |-> chapters]]

\* EpubBuilder(title, author, language, include_cover_page, cover_first_in_spine)
\* (epub_builder.py:27-45)
InitBuilder ==
    /\ include_cover_page \in BOOLEAN
    /\ cover_first_in_spine \in BOOLEAN
    /\ chapters = <<>>
    /\ cover_url = None
    /\ images = <<>>
    /\ image_counter = 1
    /\ book = NoBook
    /\ SelectIdle
    /\ FetchIdle
    /\ RunIdle

\* epub_builder.py:47-48
SetCoverUrl ==
    /\ image_counter >= 1
    /\ \E url \in CoverUrls : cover_url' = url
    /\ UNCHANGED <<include_cover_page, cover_first_in_spine, chapters, images,
                   image_counter, book, selVars, fetchVars, runVars>>

\* Variant of Extend that puts the new chapters in front.
Extend_InFront(list, new) == new \o list

\* self._chapters.extend(chapters)  (epub_builder.py:69)
Extend(list, new) == list \o new

\* epub_builder.py:65-69
AddChapters ==
    /\ image_counter >= 1
    /\ \E chs \in ChapterLists :
         /\ Len(chapters) + Len(chs) <= MaxChapters
         /\ chapters' = Extend(chapters, chs)
    /\ UNCHANGED <<include_cover_page, cover_first_in_spine, cover_url, images,
                   image_counter, book, selVars, fetchVars, runVars>>

\* epub_builder.py:127-231
Build ==
    /\ image_counter >= 1
    /\ \E output_basename \in Basenames,
          cov \in (IF CoverFetched THEN DownloadOutcomes ELSE {"not_fetched"}),
          outs \in [1..NumFetchesAll(chapters) -> DownloadOutcomes] :
         \E r \in {BuildResult(output_basename, cov, outs)} :
             /\ r.counter <= MaxImages + 1
             /\ image_counter' = r.counter
             /\ images' = r.images
             /\ book' = r.book
    /\ UNCHANGED <<include_cover_page, cover_first_in_spine, chapters, cover_url,
                   selVars, fetchVars, runVars>>

NextBuilder == SetCoverUrl \/ AddChapters \/ Build

SpecBuilder == InitBuilder /\ [][NextBuilder]_vars

(***************************************************************************)
(* run(url, range_, save_as) of sites/zetro.py and sites/zeus.py, one       *)
(* action per call that reaches the network or may raise.  run_log holds    *)
(* one entry for every HTTP request issued, in order.                       *)
(***************************************************************************)
Sites == {"zetro", "zeus"}

\* retries: int = 3  (helpers.py:15); run never passes another value.
DefaultRetries == 3

\* The range expressions given to a run: all, single indexes, ranges, an
\* inverted range and a text outside the grammar.
RunSelections ==
    { <<"a", "l", "l">>, <<"1">>, <<"2">>, <<"3">>, <<"1", "-", "2">>,
      <<"2", "-", "1">>, <<"x">> }

\* How a call of fetch_soup ends (helpers.py:15-29): it returns on the first
\* attempt that succeeds, having issued one request per attempt, or raises
\* after one request per configured attempt.
FetchSoupOutcomes ==
    {[ok |-> TRUE, attempts |-> k] : k \in 1..DefaultRetries}
        \cup {[ok |-> FALSE, attempts |-> DefaultRetries]}

\* n requests of one kind for one target.
Issued(kind, target, n) == [i \in 1..n |-> [kind |-> kind, target |-> target]]

\* The chapter list the site serves for a book of n chapters, newest first.
Feed(n) == [i \in 1..n |-> <<"Chapter " \o ToString(n + 1 - i), n + 1 - i>>]

Reverse(list) == [i \in 1..Len(list) |-> list[Len(list) + 1 - i]]

\* list(chapters_toc.items()): zetro.py:133-135 reverses the list; zeus.py:97-101
\* reverses it and pops its last item.
ChaptersToc(module, feed) ==
    IF module = "zetro" THEN Reverse(feed)
    ELSE IF feed = <<>> THEN <<>>
    ELSE SubSeq(Reverse(feed), 1, Len(feed) - 1)

\* The requests chapters_toc issues for a book of n chapters: one POST
\* (zetro.py:99); one GET per page of the feed up to the first empty page
\* (zeus.py:82-95, n being below max_results).
IndexRequests(module, n) ==
    IF module = "zetro" THEN 1 ELSE IF n > 0 THEN 2 ELSE 1

\* The body the site serves for the chapter behind a link.
BodyOf(link) ==
    IF link % 3 = 1 THEN <<Text("t2"), Img("u1.png"), Text("t3")>>
    ELSE IF link % 3 = 2 THEN <<Img("u2.png?w=9"), Img("")>>
    ELSE <<Text("t1")>>

\* Variant of ChapterStep that skips a chapter whose download raised.
ChapterStep_SkipFailed(outcome, acc, entry) ==
    [pc |-> "chapters",
     all |-> IF outcome.ok THEN Append(acc, [title |-> entry[1], paras |-> BodyOf(entry[2])])
                           ELSE acc,
     exc |-> "None"]

\* One pass of the loop over the selected chapters (zetro.py:157-245,
\* zeus.py:107-118): fetch_soup raising leaves run, else the chapter is appended.
ChapterStep(outcome, acc, entry) ==
    IF outcome.ok
      THEN [pc |-> "chapters",
            all |-> Append(acc, [title |-> entry[1], paras |-> BodyOf(entry[2])]),
            exc |-> "None"]
      ELSE [pc |-> "raised", all |-> acc, exc |-> "RequestException"]

\* The requests _process_chapter_images issues for a body: one per <img> with
\* a src (epub_builder.py:108-114, 93).
DownloadRequests(blocks) ==
    LET tags == SelectSeq(blocks, IsFetched)
    IN  [i \in 1..Len(tags) |-> [kind |-> "image", target |-> StripQuery(tags[i].src)]]

RECURSIVE DownloadRequestsAll(_)
DownloadRequestsAll(chs) ==
    IF chs = <<>> THEN <<>>
    ELSE DownloadRequests(Head(chs).paras) \o DownloadRequestsAll(Tail(chs))

\* The request _download_and_prepare_cover issues (epub_builder.py:156-157, 77).
CoverRequests == IF CoverFetched THEN Issued("cover", cover_url, 1) ELSE <<>>

\* The places where a statement of build() may raise: before the cover is
\* downloaded, between the cover and the chapters, and after the chapters.
BuildStages == {"before_cover", "after_cover", "after_images"}

InitRun ==
    /\ site \in Sites
    /\ selection \in RunSelections
    /\ items = <<>>
    /\ selected = Pending
    /\ run_pc = "page"
    /\ run_log = <<>>
    /\ run_exc = "None"
    /\ all_chapters = <<>>
    /\ chapter_idx = 0
    /\ files = {}
    /\ FetchIdle
    /\ BuilderIdle

\* soup = fetch_soup(url)  (zetro.py:256, zeus.py:122)
FetchBookPage ==
    /\ run_pc = "page"
    /\ \E o \in FetchSoupOutcomes :
         /\ run_log' = run_log \o Issued("book_page", "url", o.attempts)
         /\ run_pc' = IF o.ok THEN "index" ELSE "raised"
         /\ run_exc' = IF o.ok THEN "None" ELSE "RequestException"
    /\ UNCHANGED <<site, all_chapters, chapter_idx, files, selVars, fetchVars, builderVars>>

\* toc = chapters_toc(...)  (zetro.py:257-258 with 18-22, 96-135; zeus.py:123-125
\* with 18-22, 76-101): the page lacks the element that names the book, or a
\* request of the index raises, or the index is read.
FetchIndex ==
    /\ run_pc = "index"
    /\ \/ /\ run_pc' = "raised"
          /\ run_exc' = "ValueError"
          /\ UNCHANGED <<run_log, items>>
       \/ \E n \in 0..MaxFeed, r \in 1..2 :
            /\ r <= IndexRequests(site, n)
            /\ run_log' = run_log \o Issued("chapter_index", "index", r)
            /\ run_pc' = "raised"
            /\ run_exc' = "HTTPError"
            /\ UNCHANGED items
       \/ \E n \in 0..MaxFeed :
            /\ run_log' = run_log \o Issued("chapter_index", "index", IndexRequests(site, n))
            /\ items' = ChaptersToc(site, Feed(n))
            /\ run_pc' = "select"
            /\ UNCHANGED run_exc
    /\ UNCHANGED <<site, all_chapters, chapter_idx, files, selection, selected,
                   fetchVars, builderVars>>

\* selected = parse_range_selection(list(chapters_toc.items()), selection)
\* (zetro.py:139, zeus.py:105)
SelectChapters ==
    /\ run_pc = "select"
    /\ \E out \in {parse_range_selection(items, selection)} :
         /\ selected' = out
         /\ run_pc' = IF out.kind = "return" THEN "chapters" ELSE "raised"
         /\ run_exc' = IF out.kind = "return" THEN "None" ELSE out.kind
    /\ UNCHANGED <<site, run_log, all_chapters, chapter_idx, files, items, selection,
                   fetchVars, builderVars>>

\* Variant of SelectedEntry that walks the whole chapter list.
SelectedEntry_FromToc(idx) == items[idx + 1]

\* for title, link in selected  (zetro.py:157, zeus.py:107), idx entries done
SelectedEntry(idx) == selected.value[idx + 1]

\* for title, link in selected: soup = fetch_soup(link) ...
\* (zetro.py:157-245, zeus.py:107-118)
FetchChapter ==
    /\ run_pc = "chapters"
    /\ chapter_idx < Len(selected.value)
    /\ \E o \in FetchSoupOutcomes :
         \E entry \in {SelectedEntry(chapter_idx)} :
         \E step \in {ChapterStep(o, all_chapters, entry)} :
            /\ run_log' = run_log \o Issued("chapter_body", entry[2], o.attempts)
            /\ run_pc' = step.pc
            /\ all_chapters' = step.all
            /\ run_exc' = step.exc
            /\ chapter_idx' = chapter_idx + 1
    /\ UNCHANGED <<site, files, selVars, fetchVars, builderVars>>

\* builder = EpubBuilder(...); ...; builder.add_chapters(chapters)
\* (zetro.py:259-275, zeus.py:127-142); cover is meta.get("cover").
MakeBuilder ==
    /\ run_pc = "chapters"
    /\ chapter_idx = Len(selected.value)
    /\ \E cover \in {None} \cup CoverUrls :
         /\ include_cover_page' = IF site = "zetro" THEN TRUE ELSE cover # None
         /\ cover_url' = cover
    /\ cover_first_in_spine' = (site = "zetro")
    /\ chapters' = Extend(<<>>, all_chapters)
    /\ images' = <<>>
    /\ image_counter' = 1
    /\ run_pc' = "build"
    /\ UNCHANGED <<book, site, run_log, run_exc, all_chapters, chapter_idx, files,
                   selVars, fetchVars>>

\* builder.build(save_as) running to its end (zetro.py:276, zeus.py:143;
\* epub_builder.py:127-231): write_epub is its last statement.
RunBuild ==
    /\ run_pc = "build"
    /\ \E output_basename \in Basenames,
          cov \in (IF CoverFetched THEN DownloadOutcomes ELSE {"not_fetched"}),
          outs \in [1..NumFetchesAll(chapters) -> DownloadOutcomes] :
         \E r \in {BuildResult(output_basename, cov, outs)} :
             /\ image_counter' = r.counter
             /\ images' = r.images
             /\ book' = r.book
             /\ files' = files \cup {r.book.file}
    /\ run_log' = run_log \o CoverRequests \o DownloadRequestsAll(chapters)
    /\ run_pc' = "done"
    /\ UNCHANGED <<include_cover_page, cover_first_in_spine, chapters, cover_url,
                   site, run_exc, all_chapters, chapter_idx, selVars, fetchVars>>

\* builder.build(save_as) left by an exception it does not catch: the
\* statements after the one that raised, write_epub among them, are not run.
BuildRaises ==
    /\ run_pc = "build"
    /\ \E stage \in BuildStages :
         /\ run_log' = run_log
                \o (IF stage = "before_cover" THEN <<>> ELSE CoverRequests)
                \o (IF stage = "after_images" THEN DownloadRequestsAll(chapters) ELSE <<>>)
         /\ IF stage = "after_images"
              THEN \E outs \in [1..NumFetchesAll(chapters) -> DownloadOutcomes] :
                     \E r \in {BuildResult("out", "failed", outs)} :
                         /\ image_counter' = r.counter
                         /\ images' = r.images
              ELSE UNCHANGED <<image_counter, images>>
    /\ run_pc' = "raised"
    /\ run_exc' = "BuildError"
    /\ UNCHANGED <<include_cover_page, cover_first_in_spine, chapters, cover_url, book,
                   site, all_chapters, chapter_idx, files, selVars, fetchVars>>

NextRun ==
    \/ FetchBookPage
    \/ FetchIndex
    \/ SelectChapters
    \/ FetchChapter
    \/ MakeBuilder
    \/ RunBuild
    \/ BuildRaises

SpecRun == InitRun /\ [][NextRun]_vars

(***************************************************************************)
(* Properties of the range selection.                                      *)
(***************************************************************************)
SelectDone == selected # Pending

\* The expression as the grammar reads it: trimmed, and case-folded for "all".
Trimmed == Strip(selection)

IsAllExpr == selection # NoneSel /\ Lower(Trimmed) = <<"a", "l", "l">>

IsSingleExpr == selection # NoneSel /\ MatchDigits(Trimmed)

IsIntervalExpr == selection # NoneSel /\ MatchRange(Trimmed)

ExprN == ToInt(Trimmed)

ExprA == ToInt(Group1(Trimmed))

ExprB == ToInt(Group2(Trimmed))

ClampedA == IF ExprA < 1 THEN 1 ELSE ExprA

ClampedB == IF ExprB > Len(items) THEN Len(items) ELSE ExprB

\* C1 as claimed: an interval "a-b" with a >= b after clamping (equal bounds
\* included) fails with InvalidRange.
C1_AsClaimed ==
    (SelectDone /\ IsIntervalExpr /\ ClampedA >= ClampedB) => selected = InvalidRange

\* C1 amended: an interval "a-b" with a > b after clamping a up to 1 and b down
\* to len(items) fails with InvalidRange and returns no element.
C1_InvertedRangeRejected ==
    (SelectDone /\ IsIntervalExpr /\ ClampedA > ClampedB) =>
        /\ selected.kind = "IndexError"
        /\ selected.msg = "Invalid chapter range"
        /\ selected.value = <<>>

\* An interval that is inverted only once b is clamped to len(items) is rejected.
C1_Witness ==
    /\ SelectDone /\ IsIntervalExpr
    /\ ExprA <= ExprB /\ ClampedA > ClampedB
    /\ Len(items) >= 1
    /\ selected = InvalidRange

\* C2: an accepted interval "a-b" returns exactly the items at the 1-based
\* positions max(a,1)..min(b,len(items)), in the original order.
C2_IntervalIsSlice ==
    (SelectDone /\ IsIntervalExpr /\ selected.kind = "return") =>
        /\ ClampedA <= ClampedB
        /\ selected.value = [i \in 1..(ClampedB - ClampedA + 1) |-> items[ClampedA + i - 1]]

\* An accepted interval whose two bounds are both clamped and that selects
\* several items.
C2_Witness ==
    /\ SelectDone /\ IsIntervalExpr /\ selected.kind = "return"
    /\ ExprA < 1 /\ ExprB > Len(items)
    /\ Len(selected.value) >= 2

\* C3: an all-digit expression n returns the one item at position n when
\* 1 <= n <= len(items) and fails with OutOfRange otherwise.
C3_SingleIndex ==
    (SelectDone /\ IsSingleExpr) =>
        IF 1 <= ExprN /\ ExprN <= Len(items)
          THEN selected.kind = "return" /\ selected.value = <<items[ExprN]>>
          ELSE selected = OutOfRange

\* The expression 0 is refused on a non-empty list.
C3_Witness ==
    /\ SelectDone /\ IsSingleExpr
    /\ ExprN = 0 /\ Len(items) >= 2
    /\ selected = OutOfRange

\* C4 as claimed: "all" in any letter case and with any leading or trailing
\* whitespace selects the full item sequence in unchanged order.
C4_AsClaimed ==
    (SelectDone /\ IsAllExpr) => selected.kind = "return" /\ selected.value = items

\* C5: an expression that is not "all", not a digit group and not two digit
\* groups joined by a hyphen fails with InvalidSyntax, whose kind differs from
\* that of OutOfRange and InvalidRange, and returns no element.
C5_InvalidSyntax ==
    (SelectDone /\ selection # NoneSel /\ ~IsAllExpr /\ ~IsSingleExpr /\ ~IsIntervalExpr) =>
        /\ selected.kind = "ValueError"
        /\ selected.value = <<>>
        /\ selected.kind \notin {OutOfRange.kind, InvalidRange.kind}

\* An expression with a hyphen but no second digit group is refused on a
\* non-empty list.
C5_Witness ==
    /\ SelectDone /\ selection = <<"1", "-">> /\ Len(items) >= 1
    /\ selected.kind = "ValueError"

(***************************************************************************)
(* Properties of the retrying fetch.                                       *)
(***************************************************************************)
Requests == SelectSeq(net_log, LAMBDA e : e.ev = "request")

Sleeps == SelectSeq(net_log, LAMBDA e : e.ev = "sleep")

RECURSIVE Pow2(_)
Pow2(n) == IF n = 0 THEN 1 ELSE 2 * Pow2(n - 1)

\* C6: a fetch whose first success is on attempt k returns that attempt's
\* result after exactly k requests and exactly k-1 waits of d, 2d, 4d, ...,
\* none of them after the successful attempt.
C6_SuccessOnAttemptK ==
    fetch_pc = "returned" =>
        LET k == Len(Requests)
        IN  /\ 1 <= k /\ k <= retries
            /\ fetched = "soup"
            /\ Requests[k].outcome = "ok"
            /\ \A i \in 1..(k - 1) : Requests[i].outcome \in Failures
            /\ Len(Sleeps) = k - 1
            /\ \A i \in 1..(k - 1) : Sleeps[i].dur = backoff0 * Pow2(i - 1)
            /\ net_log[Len(net_log)].ev = "request"

\* Two failures, then success on the third attempt.
C6_Witness ==
    /\ fetch_pc = "returned" /\ retries = 3
    /\ Len(Requests) = 3 /\ Len(Sleeps) = 2
    /\ Sleeps[1].dur = backoff0 /\ Sleeps[2].dur = 2 * backoff0

\* C7: a fetch whose every attempt fails makes exactly retries requests, never
\* more, and raises the error of its last attempt, whatever the kinds of failure.
C7_ExhaustedRaisesLast ==
    /\ Len(Requests) <= retries
    /\ fetch_pc = "raised" =>
          /\ Len(Requests) = retries
          /\ \A i \in 1..retries : Requests[i].outcome \in Failures
          /\ fetched = Requests[retries].outcome

\* Three failures of three different kinds, the last one raised.
C7_Witness ==
    /\ fetch_pc = "raised" /\ retries = 3
    /\ {Requests[i].outcome : i \in 1..3} = Failures
    /\ fetched = Requests[3].outcome

\* C8 as claimed: every wait is followed by another request, and no wait is
\* performed after the final failed attempt before the failure is raised.
C8_AsClaimed ==
    fetch_pc = "raised" =>
        \A i \in 1..Len(net_log) :
            net_log[i].ev = "sleep" =>
                i < Len(net_log) /\ net_log[i + 1].ev = "request"

(***************************************************************************)
(* Properties of the builder.                                              *)
(***************************************************************************)
Built == book # NoBook

Range(seq) == {seq[i] : i \in 1..Len(seq)}

TextRuns(blocks) == SelectSeq(blocks, LAMBDA b : b.type = "text")

ImageRefs(blocks) == SelectSeq(blocks, LAMBDA b : b.type = "img")

NumFailed(results) == Len(SelectSeq(results, LAMBDA r : r = "failed"))

NumStored(results) == Len(SelectSeq(results, LAMBDA r : r = "stored"))

\* C9 as claimed: when an image of a chapter cannot be fetched or decoded the
\* build still completes, the text of the chapter is unchanged, no asset is
\* stored for the reference, and the reference is omitted from the rendered
\* chapter, whose images are those of the source less the failed ones.
C9_AsClaimed ==
    Built =>
        \A i \in 1..Len(book.docs) :
            NumFailed(book.docs[i].results) > 0 =>
                /\ TextRuns(book.docs[i].content) = TextRuns(book.chapters[i].paras)
                /\ \A b \in Range(book.docs[i].content) :
                       (b.type = "img" /\ b.src # "") =>
                           \E a \in Range(book.assets) : b.src = "../" \o a.key
                /\ Len(ImageRefs(book.docs[i].content))
                       = Len(ImageRefs(book.chapters[i].paras)) - NumFailed(book.docs[i].results)

\* C10 as claimed: the spine holds the navigation document and the introduction,
\* and it holds the cover page exactly when includeCoverPage is true and the
\* cover was fetched and decoded.
C10_AsClaimed ==
    Built =>
        /\ "xhtml/nav.xhtml" \in Range(book.spine)
        /\ "xhtml/intro.xhtml" \in Range(book.spine)
        /\ "xhtml/cover.xhtml" \in Range(book.spine)
               <=> (book.include_cover_page /\ book.cover = "stored")

\* C11 as claimed: the table of contents is the spine with the navigation
\* document removed, same entries in the same order.
C11_AsClaimed ==
    Built => book.toc = SelectSeq(book.spine, LAMBDA e : e # "xhtml/nav.xhtml")

\* C12: with includeCoverPage true and a cover that was fetched and decoded,
\* the first spine entry is the cover page when coverFirstInSpine is true;
\* when it is false the cover page is still an item of the package but not
\* the first spine entry.
C12_CoverFirstInSpine ==
    (Built /\ book.include_cover_page /\ book.cover = "stored") =>
        IF book.cover_first_in_spine
          THEN book.spine[1] = "xhtml/cover.xhtml"
          ELSE /\ "xhtml/cover.xhtml" \in Range(book.items)
               /\ book.spine[1] # "xhtml/cover.xhtml"

\* A package with chapters whose cover page leads the spine.
C12_Witness ==
    /\ Built /\ book.include_cover_page /\ book.cover = "stored"
    /\ book.cover_first_in_spine
    /\ Len(book.docs) >= 1
    /\ book.spine[1] = "xhtml/cover.xhtml"

\* A step that is a second build() of a builder whose chapters, options and
\* cover URL are those of the previous build, every download ending as it did.
RebuildStep ==
    /\ Built
    /\ book'.identifier # book.identifier
    /\ book'.chapters = book.chapters
    /\ book'.include_cover_page = book.include_cover_page
    /\ book'.cover_first_in_spine = book.cover_first_in_spine
    /\ book'.cover_url = book.cover_url
    /\ book'.cover = book.cover
    /\ \A i \in 1..Len(book.docs) : book'.docs[i].results = book.docs[i].results

\* C13 as claimed: two successive builds of the same builder with the same
\* download results give packages equal in sections, image assets, asset
\* names, image references, spine and table of contents; only the package
\* identifier differs.
C13_AsClaimed ==
    [][RebuildStep =>
          /\ book'.items = book.items
          /\ book'.assets = book.assets
          /\ book'.docs = book.docs
          /\ book'.spine = book.spine
          /\ book'.toc = book.toc]_vars

\* A build of a book with no chapter, no cover URL and includeCoverPage false.
EmptyBookBuilt ==
    /\ Built
    /\ book.chapters = <<>>
    /\ book.cover_url = None
    /\ ~book.include_cover_page

\* C14 as claimed: an empty book without cover builds into a package whose
\* registered items are exactly a stylesheet, a navigation document and an
\* introduction, with the table of contents [introduction].
C14_AsClaimed ==
    EmptyBookBuilt =>
        /\ Len(book.items) = 3
        /\ Range(book.items) = {"styles/style.css", "xhtml/nav.xhtml", "xhtml/intro.xhtml"}
        /\ book.toc = <<"xhtml/intro.xhtml">>

\* C14 amended: an empty book without cover builds into a package whose
\* registered items are exactly a stylesheet, an introduction, a navigation
\* document and the NCX file, with the table of contents [introduction].
C14_EmptyBookItems ==
    EmptyBookBuilt =>
        /\ Len(book.items) = 4
        /\ Range(book.items) = {"styles/style.css", "xhtml/nav.xhtml",
                                "xhtml/intro.xhtml", "toc.ncx"}
        /\ book.assets = <<>>
        /\ book.toc = <<"xhtml/intro.xhtml">>

\* The empty book built by a builder asked to put the cover first.
C14_Witness ==
    /\ EmptyBookBuilt
    /\ book.cover_first_in_spine
    /\ book.file = "out.epub"
    /\ book.toc = <<"xhtml/intro.xhtml">>

\* The entries of a spine or a table of contents that are chapter documents.
ChapterEntries(list) ==
    SelectSeq(list, LAMBDA e : e \notin {"xhtml/cover.xhtml", "xhtml/nav.xhtml",
                                         "xhtml/intro.xhtml"})

IsPrefix(s, t) == Len(s) <= Len(t) /\ SubSeq(t, 1, Len(s)) = s

\* C15: add_chapters appends its chapters, in the order given, after those
\* already inserted, and build makes the i-th inserted chapter the i-th chapter
\* document, with its title and its text, and lists the chapter documents in
\* that order in the spine and in the table of contents; none is dropped,
\* duplicated or reordered, whatever the outcome of its image downloads.
C15_ChapterOrder ==
    /\ [](Built =>
            /\ Len(book.docs) = Len(book.chapters)
            /\ \A i \in 1..Len(book.docs) :
                   /\ book.docs[i].file = ChapFile(i)
                   /\ book.docs[i].title = book.chapters[i].title
                   /\ TextRuns(book.docs[i].content) = TextRuns(book.chapters[i].paras)
                   /\ Len(book.docs[i].content) = Len(book.chapters[i].paras)
            /\ ChapterEntries(book.spine) = [i \in 1..Len(book.chapters) |-> ChapFile(i)]
            /\ ChapterEntries(book.toc) = [i \in 1..Len(book.chapters) |-> ChapFile(i)])
    /\ [][IsPrefix(chapters, chapters')]_vars

\* Two different chapters built in insertion order, one of them with a failed
\* image download.
C15_Witness ==
    /\ Built
    /\ Len(book.chapters) = 2
    /\ book.chapters[1].title = "Two"
    /\ book.chapters[2].title = "One"
    /\ book.docs[1].results = <<"failed">>
    /\ ChapterEntries(book.spine) = <<ChapFile(1), ChapFile(2)>>
    /\ book.docs[2].title = "One"

\* The <img> tags of a chapter document whose download was stored, each with
\* the reference it got and the URL it was downloaded from.
StoredOf(doc, chapter) ==
    LET imgs == ImageRefs(doc.content)
        orig == ImageRefs(chapter.paras)
        tags == [j \in 1..Len(imgs) |->
                    [src |-> imgs[j].src, url |-> StripQuery(orig[j].src),
                     result |-> doc.results[j]]]
    IN  SelectSeq(tags, LAMBDA t : t.result = "stored")

RECURSIVE StoredFrom(_, _, _)
StoredFrom(docs, chs, i) ==
    IF i > Len(docs) THEN <<>>
    ELSE StoredOf(docs[i], chs[i]) \o StoredFrom(docs, chs, i + 1)

\* The stored image references of the last build, in document order.
StoredRefs == StoredFrom(book.docs, book.chapters, 1)

\* C16: each asset of a package has its own filename (and so its own id); the
\* image ids are consecutive numbers given, in document order over the chapters
\* in insertion order, to the references whose download succeeded and to no
\* other, every occurrence of a URL getting its own; the cover is stored as
\* images/cover.jpg and takes no number of the sequence.
C16_ImageIds ==
    Built =>
        LET refs == StoredRefs
            first == image_counter - Len(refs)
            image_assets == IF book.cover = "stored" THEN Tail(book.assets)
                                                     ELSE book.assets
        IN  /\ \A i, j \in 1..Len(book.assets) :
                   i # j => book.assets[i].key # book.assets[j].key
            /\ first >= 1
            /\ \A j \in 1..Len(refs) :
                   /\ refs[j].src = "../" \o ImgFilename(first + j - 1)
                   /\ [key |-> ImgFilename(first + j - 1), val |-> Jpeg(refs[j].url)]
                          \in Range(image_assets)
            /\ Len(image_assets) = image_counter - 1
            /\ \A n \in 1..Len(image_assets) : image_assets[n].key = ImgFilename(n)
            /\ book.cover = "stored" =>
                   book.assets[1] = [key |-> "images/cover.jpg",
                                     val |-> Jpeg(book.cover_url)]

\* A package with a stored cover and the same URL stored twice.
C16_Witness ==
    /\ Built
    /\ book.cover = "stored"
    /\ Len(book.docs) = 2
    /\ book.chapters[1] = book.chapters[2]
    /\ book.docs[1].results = <<"stored">>
    /\ book.docs[2].results = <<"stored">>
    /\ Len(book.assets) = 3

(***************************************************************************)
(* Properties of a run.                                                    *)
(***************************************************************************)
RequestsOf(kind) == SelectSeq(run_log, LAMBDA e : e.kind = kind)

\* C17: the output file exists only when run went through every stage: every
\* selected chapter was downloaded, in order, and the build ran to its end on
\* those chapters; a run left by an exception (a chapter download out of
\* attempts, a build stage that raises) has written no file and takes no
\* further step.
C17_WrittenOnlyOnSuccess ==
    /\ [](files # {} =>
            /\ run_pc = "done"
            /\ run_exc = "None"
            /\ selected.kind = "return"
            /\ Len(all_chapters) = Len(selected.value)
            /\ \A i \in 1..Len(all_chapters) :
                   /\ all_chapters[i].title = selected.value[i][1]
                   /\ all_chapters[i].paras = BodyOf(selected.value[i][2])
            /\ Built
            /\ book.chapters = all_chapters
            /\ Len(book.docs) = Len(all_chapters)
            /\ files = {book.file})
    /\ [](run_pc = "raised" => (files = {} /\ ~Built /\ run_exc # "None"))
    /\ [][run_pc # "raised"]_vars

\* A run that downloaded two chapters and wrote the file, one image of the
\* book having failed to download.
C17_Witness ==
    /\ files = {"out.epub"}
    /\ run_pc = "done"
    /\ Len(all_chapters) = 2
    /\ Len(book.docs) = 2
    /\ \E i \in 1..2 : "failed" \in Range(book.docs[i].results)

\* A run whose range expression parse_range_selection rejected.
SelectionRejected ==
    /\ run_pc = "raised"
    /\ selected.kind \in {"ValueError", "IndexError"}

\* C18 as claimed: a run with an invalid range expression issues no HTTP
\* request before the selection error is surfaced, and no chapter body is
\* fetched for an entry outside the selection.
C18_AsClaimed ==
    /\ SelectionRejected => run_log = <<>>
    /\ \A e \in Range(RequestsOf("chapter_body")) :
           \E i \in 1..Len(selected.value) : selected.value[i][2] = e.target

\* C18 amended: a run with an invalid range expression is left by the
\* selection error after the requests of the book page and of the chapter
\* index and before any request of a chapter body, an image or the cover,
\* with no chapter downloaded and no file written; and no chapter body is
\* ever fetched for an entry outside the selection.
C18_RejectedBeforeChapters ==
    /\ SelectionRejected =>
           /\ run_exc = selected.kind
           /\ \A e \in Range(run_log) : e.kind \in {"book_page", "chapter_index"}
           /\ RequestsOf("book_page") # <<>>
           /\ RequestsOf("chapter_index") # <<>>
           /\ all_chapters = <<>>
           /\ files = {}
    /\ \A e \in Range(RequestsOf("chapter_body")) :
           \E i \in 1..Len(selected.value) : selected.value[i][2] = e.target

\* A run given a text outside the grammar, left by the ValueError after the
\* index of a book of two chapters was read.
C18_Witness ==
    /\ SelectionRejected
    /\ selection = <<"x">>
    /\ selected.kind = "ValueError"
    /\ Len(items) = 2
    /\ Len(run_log) >= 2

RECURSIVE SumOver(_, _, _)
SumOver(docs, Count(_), i) ==
    IF i > Len(docs) THEN 0 ELSE Count(docs[i].results) + SumOver(docs, Count, i + 1)

\* C19 as claimed: an image reference is dropped only after all configured
\* attempts have failed, so the image requests of a finished run number at
\* least one per stored image and DefaultRetries per dropped one.
C19_AsClaimed ==
    run_pc = "done" =>
        Len(RequestsOf("image")) >=
            SumOver(book.docs, NumStored, 1) + DefaultRetries * SumOver(book.docs, NumFailed, 1)

====
